---- MODULE Spec2Model ----
(***************************************************************************)
(* A model of formatter.py: one run of the CSV/SMI formatter over one      *)
(* input file.  The run is the __main__ block: optional gunzip, the file   *)
(* format check, the record loop of process_file writing the loader file   *)
(* and (when generating uuids) the rewritten input file, the optional      *)
(* re-compression, and the FieldsDescriptor reconciliation.                *)
(*                                                                         *)
(* A csv line is a sequence of cell strings.  A csv.DictReader row and a   *)
(* Python dict are functions from key strings to cell strings.             *)
(***************************************************************************)
EXTENDS Integers, Sequences, FiniteSets, TLC

\* Largest number of data records in the input file.
MaxRecs == 3

VARIABLES
    generate_uuid,    \* processing_vars['generate_uuid']
    header,           \* processing_vars['header']
    compress,         \* dataset_filename ends with '.gz'
    lines,            \* the text lines of the (uncompressed) input file
    pc,               \* position of the run in __main__
    abort_cause,      \* why the process ended abnormally, "" otherwise
    input_headings,   \* old_headings returned by check_file_format (keys)
    output_headings,  \* new_headings returned by check_file_format
    smiles_col,       \* input_smiles_col
    uuid_col,         \* input_uuid_col
    handles,          \* state of the three file objects of the with-block
    reader_pos,       \* lines consumed by the csv.DictReader of line 482
    num_processed,
    num_failed,
    num_mols,
    fields,           \* column name -> estimated type, gathered in the loop
    loader,           \* data rows written to tmploaderfile.csv
    loader_header,    \* TRUE once writer.writeheader() has run
    rewritten,        \* lines written to the rewritten input file
    uuid_count,       \* number of uuid.uuid4() calls made so far
    files,            \* intermediate and result files present on disk
    anno_in,          \* fields of the FieldsDescriptor read at anno_in_filename
    anno_out,         \* fields of the FieldsDescriptor written
    anno_writes,      \* number of times anno_out_filename was written
    lib               \* behaviour of the FieldsDescriptorAnnotation library

vars == <<generate_uuid, header, compress, lines, pc, abort_cause,
          input_headings, output_headings, smiles_col, uuid_col, handles,
          reader_pos, num_processed, num_failed, num_mols, fields, loader,
          loader_header, rewritten, uuid_count, files, anno_in, anno_out,
          anno_writes, lib>>

----------------------------------------------------------------------------
(* Generic helpers for sequences and dicts.                                *)

Range(s) == {s[i] : i \in 1..Len(s)}

EmptyDict == [k \in {} |-> ""]

\* dict(zip(keys, cells)): a later duplicate key overrides an earlier one.
ZipDict(keys, cells) ==
    [k \in Range(keys) |->
        cells[CHOOSE i \in 1..Len(keys) :
                 /\ keys[i] = k
                 /\ \A j \in 1..Len(keys) : keys[j] = k => j <= i]]

\* d[k] = v as Python does it: insert or overwrite.
DictSet(d, k, v) == [x \in DOMAIN d \cup {k} |-> IF x = k THEN v ELSE d[x]]

----------------------------------------------------------------------------
(* The input universe.                                                     *)

\* Values of the smiles column: one that standardizes, one for which the
\* toolkit returns a null molecule, one on which the toolkit raises.
SmilesValues == {"OCC", "XX", "boom"}

\* Values of the second column: a valid uuid, a non-uuid, the empty cell.
IdValues == {"U1", "bad", ""}

\* Value of a third column.
ExtraValues == {"7"}

\* Heading rows of files that have one (column names are distinct).
Headings == { <<"smiles", "uuid">>, <<"smiles", "id">>,
              <<"smiles", "uuid", "name">>, <<"smiles", "id", "name">>,
              <<"smiles", "id", "uuid">> }

DataRows(n) ==
    IF n = 2 THEN {<<s, u>> : s \in SmilesValues, u \in IdValues}
    ELSE {<<s, u, e>> : s \in SmilesValues, u \in IdValues, e \in ExtraValues}

RecordSeqs(n) == UNION {[1..k -> DataRows(n)] : k \in 0..MaxRecs}

\* Every file the model runs on: an optional heading row and up to MaxRecs
\* data records, all lines with the same number of cells.
InputFiles(hdr) ==
    IF hdr
    THEN UNION {{<<h>> \o recs : recs \in RecordSeqs(Len(h))} : h \in Headings}
    ELSE RecordSeqs(2) \cup RecordSeqs(3)

\* The data records of a file, heading row excluded.
DataRecords(f, hdr) == IF hdr /\ Len(f) > 0 THEN Tail(f) ELSE f

----------------------------------------------------------------------------
(* External capabilities, modelled on the input universe.                  *)

\* standardize_to_noniso_smiles: (canonical smiles, molecule), a null
\* molecule when the structure cannot be standardized, or an exception.
standardize_to_noniso_smiles(smiles) ==
    CASE smiles = "OCC"  -> [threw |-> FALSE, smiles |-> "CCO", mol |-> "CCO"]
      [] smiles = "boom" -> [threw |-> TRUE,  smiles |-> "",    mol |-> ""]
      [] OTHER           -> [threw |-> FALSE, smiles |-> "",    mol |-> ""]

\* noniso_smiles: passes the result through; an exception becomes sys.exit(1).
noniso_smiles(smiles) == standardize_to_noniso_smiles(smiles)

\* The value str(uuid.uuid4()) returns on its n-th call.
uuid4(n) == "G" \o ToString(n)

\* Every value uuid.uuid4() can have returned after n calls.
Generated(n) == {uuid4(i) : i \in 1..n}

\* is_valid_uuid: the strings uuid.UUID() accepts.
is_valid_uuid(value) == value = "U1" \/ \E n \in 1..(MaxRecs + 2) : value = uuid4(n)

\* est_schema_field_type: a coarse type estimated from an example value.
est_schema_field_type(value) == IF value = "7" THEN "integer" ELSE "string"

\* Chem.inchi.MolToInchi, InchiToInchiKey and GetNumHeavyAtoms of a molecule.
MolToInchi(mol) == "InChI=" \o mol
InchiToInchiKey(inchis) == "KEY:" \o inchis
GetNumHeavyAtoms(mol) == IF mol = "CCO" THEN 3 ELSE 0

----------------------------------------------------------------------------
(* check_file_format.                                                      *)

\* The DictReader of line 193 takes line 1 as its field names, so
\* next(input_reader) is line 2 keyed by the cells of line 1.  The result is
\* either a fatal exit or the headings and the two resolved column names.
check_file_format(f, hdr, gen) ==
    IF Len(f) = 0 THEN [exit |-> "delimiter"]
    ELSE IF Len(f) = 1 THEN [exit |-> "StopIteration"]
    ELSE
      LET keys         == f[1]
          old_headings == ZipDict(keys, f[2])
          first_col    == keys[1]
          second_col   == keys[2]
          smiles       == IF hdr THEN old_headings[first_col] ELSE first_col
          uuid_value   == IF hdr THEN old_headings[second_col] ELSE second_col
          noniso       == noniso_smiles(smiles)
      IN  IF noniso.threw THEN [exit |-> "toolkit exception"]
          ELSE IF noniso.mol = "" THEN [exit |-> "first column must be smiles"]
          ELSE IF ~gen /\ ~is_valid_uuid(uuid_value)
               THEN [exit |-> "second column must be uuid"]
          ELSE IF gen /\ ~is_valid_uuid(uuid_value)
               THEN [exit |-> "", old_headings |-> keys,
                     new_headings |-> <<first_col, "uuid", second_col>>
                                        \o SubSeq(keys, 3, Len(keys)),
                     smiles_col |-> first_col, uuid_col |-> "uuid"]
          ELSE [exit |-> "", old_headings |-> keys, new_headings |-> keys,
                smiles_col |-> first_col, uuid_col |-> second_col]

----------------------------------------------------------------------------
(* The csv writers.                                                        *)

\* csv.DictWriter.writerow: the cells of rowdict in fieldnames order.
writerow(fieldnames, rowdict) ==
    [i \in 1..Len(fieldnames) |-> rowdict[fieldnames[i]]]

\* dict.fromkeys(output_headings, 0), then the input cells copied over it,
\* then the uuid cell assigned.
OutputRow(input_row, ucol, cell) ==
    [k \in Range(output_headings) \cup DOMAIN input_row \cup {ucol} |->
        IF k = ucol THEN cell
        ELSE IF k \in DOMAIN input_row THEN input_row[k]
        ELSE "0"]

\* write_output_csv_fail that drops the failed record instead of writing it.
write_output_csv_fail_dropped(csv_rewriter, input_row, ucol) == csv_rewriter

\* write_output_csv_fail without line 259: the uuid cell keeps what the copy
\* of the input row (or dict.fromkeys) put there.
write_output_csv_fail_kept(csv_rewriter, input_row, ucol) ==
    Append(csv_rewriter,
           writerow(output_headings,
                    [k \in Range(output_headings) \cup DOMAIN input_row |->
                        IF k \in DOMAIN input_row THEN input_row[k] ELSE "0"]))

\* write_output_csv_fail: the record is still written, with an empty uuid.
write_output_csv_fail(csv_rewriter, input_row, ucol) ==
    Append(csv_rewriter, writerow(output_headings, OutputRow(input_row, ucol, "")))

\* check_name_in_fields over every column of the row (lines 276-279).
check_names_in_fields(input_row, flds) ==
    [k \in DOMAIN flds \cup DOMAIN input_row |->
        IF k \in DOMAIN flds THEN flds[k]
        ELSE est_schema_field_type(input_row[k])]

\* write_output_csv: the record is written with the n-th generated uuid.
write_output_csv(csv_rewriter, input_row, ucol, flds, n) ==
    [molecule_uuid |-> uuid4(n),
     fields        |-> check_names_in_fields(input_row, flds),
     csv           |-> Append(csv_rewriter,
                              writerow(output_headings,
                                       OutputRow(input_row, ucol, uuid4(n))))]

\* The row of line 365 written to the loader file.
LoaderRow(noniso, molecule_uuid, n) ==
    [smiles        |-> noniso.smiles,
     inchis        |-> MolToInchi(noniso.mol),
     inchik        |-> InchiToInchiKey(MolToInchi(noniso.mol)),
     hac           |-> GetNumHeavyAtoms(noniso.mol),
     molecule_uuid |-> molecule_uuid,
     rec_number    |-> n]

----------------------------------------------------------------------------
(* process_fields_descriptor and the FieldsDescriptorAnnotation it uses.   *)
(* A schema maps a field name to its type and active flag.  The library is *)
(* not part of this repository; the two points on which its behaviour is   *)
(* not fixed by the calls made here are left open in lib:                  *)
(*   get_inactive  get_fields() also returns the inactive fields           *)
(*   keep_type     add_field(name, False) keeps the type of a known field  *)

LibBehaviours == [get_inactive : BOOLEAN, keep_type : BOOLEAN]

BASE_FIELD_NAMES == [k \in {"smiles", "uuid"} |-> [type |-> "string", active |-> TRUE]]

\* FieldsDescriptors that can be found at anno_in_filename; EmptyDict stands
\* for no file (or a file without fields).
PriorSchemas ==
    { EmptyDict,
      [k \in {"smiles", "uuid", "old"} |-> [type |-> "string", active |-> TRUE]],
      [k \in {"smiles", "id", "name"} |->
          [type |-> "string", active |-> (k # "id")]] }

\* The type add_field uses when the caller passes none.
DefaultType == "object"

get_fields(fd, l) ==
    IF l.get_inactive THEN DOMAIN fd ELSE {k \in DOMAIN fd : fd[k].active}

add_field(fd, name, active, type, l) ==
    IF name \in DOMAIN fd
    THEN DictSet(fd, name,
                 [type   |-> IF type = DefaultType /\ l.keep_type
                             THEN fd[name].type ELSE type,
                  active |-> active])
    ELSE DictSet(fd, name, [type |-> type, active |-> active])

\* Lines 417-419: every observed field not among the existing ones is added.
AddObserved(fd, existing_fields, flds, l) ==
    LET new == DOMAIN flds \ existing_fields
    IN  [k \in DOMAIN fd \cup new |->
            IF k \in new THEN add_field(fd, k, TRUE, flds[k], l)[k] ELSE fd[k]]

\* Lines 421-423 with the test of line 422 inverted.
DeactivateMissing_inverted(fd, existing_fields, flds, l) ==
    LET gone == existing_fields \cap DOMAIN flds
    IN  [k \in DOMAIN fd |->
            IF k \in gone THEN add_field(fd, k, FALSE, DefaultType, l)[k] ELSE fd[k]]

\* Lines 421-423: every existing field that was not observed is made inactive.
DeactivateMissing(fd, existing_fields, flds, l) ==
    LET gone == existing_fields \ DOMAIN flds
    IN  [k \in DOMAIN fd |->
            IF k \in gone THEN add_field(fd, k, FALSE, DefaultType, l)[k] ELSE fd[k]]

process_fields_descriptor(prior, flds, l) ==
    LET anno_in_fields  == IF DOMAIN prior # {} THEN prior ELSE BASE_FIELD_NAMES
        existing_fields == get_fields(anno_in_fields, l)
    IN  DeactivateMissing(AddObserved(anno_in_fields, existing_fields, flds, l),
                          existing_fields, flds, l)

----------------------------------------------------------------------------
(* The run.                                                                *)

Init ==
    /\ generate_uuid \in BOOLEAN
    /\ header \in BOOLEAN
    /\ compress \in BOOLEAN
    /\ lines \in InputFiles(header)
    /\ pc = "start"
    /\ abort_cause = ""
    /\ input_headings = <<>>
    /\ output_headings = <<>>
    /\ smiles_col = ""
    /\ uuid_col = ""
    /\ handles = [h \in {"input", "loader", "rewrite"} |-> "unopened"]
    /\ reader_pos = 0
    /\ num_processed = 0
    /\ num_failed = 0
    /\ num_mols = 0
    /\ fields = EmptyDict
    /\ loader = <<>>
    /\ loader_header = FALSE
    /\ rewritten = <<>>
    /\ uuid_count = 0
    /\ files = {}
    /\ anno_in = EmptyDict
    /\ anno_out = EmptyDict
    /\ anno_writes = 0
    /\ lib = [get_inactive |-> FALSE, keep_type |-> FALSE]

\* Lines 454-460: a .gz input is uncompressed next to the original.
UncompressFile ==
    /\ pc = "start"
    /\ files' = IF compress THEN files \cup {"uncompressed_input"} ELSE files
    /\ pc' = "check"
    /\ UNCHANGED <<generate_uuid, header, compress, lines, abort_cause,
                   input_headings, output_headings, smiles_col, uuid_col,
                   handles, reader_pos, num_processed, num_failed, num_mols,
                   fields, loader, loader_header, rewritten, uuid_count,
                   anno_in, anno_out, anno_writes, lib>>

\* Lines 462-463: the format check, fatal or setting the heading globals.
CheckFileFormat ==
    /\ pc = "check"
    /\ LET r == check_file_format(lines, header, generate_uuid)
       IN  IF r.exit # ""
           THEN /\ pc' = "aborted"
                /\ abort_cause' = r.exit
                /\ UNCHANGED <<input_headings, output_headings, smiles_col, uuid_col>>
           ELSE /\ pc' = "open"
                /\ abort_cause' = abort_cause
                /\ input_headings' = r.old_headings
                /\ output_headings' = r.new_headings
                /\ smiles_col' = r.smiles_col
                /\ uuid_col' = r.uuid_col
    /\ UNCHANGED <<generate_uuid, header, compress, lines, handles, reader_pos,
                   num_processed, num_failed, num_mols, fields, loader,
                   loader_header, rewritten, uuid_count, files, anno_in,
                   anno_out, anno_writes, lib>>

\* Lines 480-491: the loader file, the input reader and, when generating
\* uuids, the rewritten input file are opened; the loader heading is written.
OpenFiles ==
    /\ pc = "open"
    /\ handles' = [h \in DOMAIN handles |->
                      IF h = "rewrite" /\ ~generate_uuid THEN handles[h] ELSE "open"]
    /\ loader_header' = TRUE
    /\ files' = files \cup {"loader_file"}
                      \cup (IF generate_uuid THEN {"output_file"} ELSE {})
    /\ pc' = "process_file"
    /\ UNCHANGED <<generate_uuid, header, compress, lines, abort_cause,
                   input_headings, output_headings, smiles_col, uuid_col,
                   reader_pos, num_processed, num_failed, num_mols, fields,
                   loader, rewritten, uuid_count, anno_in, anno_out,
                   anno_writes, lib>>

\* Lines 306-326: counters and fields are initialised, the heading line is
\* skipped and the heading of the rewritten file is written.
ProcessFileStart ==
    /\ pc = "process_file"
    /\ num_processed' = 0
    /\ num_failed' = 0
    /\ num_mols' = 0
    /\ fields' = DictSet(DictSet(EmptyDict, smiles_col, "string"), uuid_col, "string")
    /\ reader_pos' = IF header THEN reader_pos + 1 ELSE reader_pos
    /\ rewritten' = IF generate_uuid /\ header
                    THEN Append(rewritten, output_headings) ELSE rewritten
    /\ pc' = "loop"
    /\ UNCHANGED <<generate_uuid, header, compress, lines, abort_cause,
                   input_headings, output_headings, smiles_col, uuid_col,
                   handles, loader, loader_header, uuid_count, files, anno_in,
                   anno_out, anno_writes, lib>>

\* Lines 333-360 without the is_valid_uuid test of line 352.
RecordOutcome_unchecked(row, gen) ==
    LET noniso == noniso_smiles(row[smiles_col])
    IN  IF noniso.threw THEN "Fatal"
        ELSE IF noniso.mol = "" THEN "FailedStandardization"
        ELSE "Emitted"

\* Lines 333-360: the way one record leaves the loop body.
RecordOutcome(row, gen) ==
    LET noniso == noniso_smiles(row[smiles_col])
    IN  IF noniso.threw THEN "Fatal"
        ELSE IF noniso.mol = "" THEN "FailedStandardization"
        ELSE IF gen THEN "Emitted"
        ELSE IF is_valid_uuid(row[uuid_col]) THEN "Emitted"
        ELSE "FailedIdentifier"

\* The num_mols counter after a record with the given outcome (line 343).
CountMols(n, outcome) ==
    IF outcome \in {"Emitted", "FailedIdentifier"} THEN n + 1 ELSE n

\* The num_failed counter after a record with the given outcome (336, 355).
CountFailed(n, outcome) ==
    IF outcome \in {"FailedStandardization", "FailedIdentifier"} THEN n + 1 ELSE n

\* Lines 328-370: one iteration of the record loop.
ProcessRecord ==
    /\ pc = "loop"
    /\ reader_pos < Len(lines)
    /\ LET row     == ZipDict(input_headings, lines[reader_pos + 1])
           noniso  == noniso_smiles(row[smiles_col])
           outcome == RecordOutcome(row, generate_uuid)
           written == write_output_csv(rewritten, row, uuid_col, fields,
                                       uuid_count + 1)
       IN  /\ reader_pos' = reader_pos + 1
           /\ num_processed' = num_processed + 1
           /\ num_failed' = CountFailed(num_failed, outcome)
           /\ num_mols' = CountMols(num_mols, outcome)
           /\ IF outcome = "Fatal"
              THEN /\ pc' = "aborted"
                   /\ abort_cause' = "toolkit exception"
                   /\ handles' = [handles EXCEPT !["loader"] = "closed"]
              ELSE /\ pc' = "loop"
                   /\ UNCHANGED <<abort_cause, handles>>
           /\ rewritten' =
                IF ~generate_uuid THEN rewritten
                ELSE IF outcome = "FailedStandardization"
                     THEN write_output_csv_fail(rewritten, row, uuid_col)
                ELSE IF outcome = "Emitted" THEN written.csv
                ELSE rewritten
           /\ fields' = IF generate_uuid /\ outcome = "Emitted"
                        THEN written.fields ELSE fields
           /\ uuid_count' = IF generate_uuid /\ outcome = "Emitted"
                            THEN uuid_count + 1 ELSE uuid_count
           /\ loader' =
                IF outcome = "Emitted"
                THEN Append(loader,
                            LoaderRow(noniso,
                                      IF generate_uuid THEN written.molecule_uuid
                                      ELSE row[uuid_col],
                                      num_processed + 1))
                ELSE loader
    /\ UNCHANGED <<generate_uuid, header, compress, lines, input_headings,
                   output_headings, smiles_col, uuid_col, loader_header, files,
                   anno_in, anno_out, anno_writes, lib>>

\* Lines 372-377 and the end of the with-block of line 480: the rewritten
\* file is closed when generating uuids, the loader file by the with.
ProcessFileEnd ==
    /\ pc = "loop"
    /\ reader_pos = Len(lines)
    /\ handles' = [h \in DOMAIN handles |->
                      IF h = "loader" \/ (h = "rewrite" /\ generate_uuid)
                      THEN "closed" ELSE handles[h]]
    /\ pc' = "compress"
    /\ UNCHANGED <<generate_uuid, header, compress, lines, abort_cause,
                   input_headings, output_headings, smiles_col, uuid_col,
                   reader_pos, num_processed, num_failed, num_mols, fields,
                   loader, loader_header, rewritten, uuid_count, files,
                   anno_in, anno_out, anno_writes, lib>>

\* Lines 498-499 with compress_file: the rewritten file is gzipped to the
\* original name and both uncompressed files are removed.  output_filename
\* is only bound when generating uuids (line 489); without it the read of
\* line 164 raises NameError after the gzip file has been created.
CompressFile ==
    /\ pc = "compress"
    /\ IF ~compress
       THEN /\ pc' = "fields"
            /\ UNCHANGED <<files, abort_cause>>
       ELSE IF generate_uuid
       THEN /\ pc' = "fields"
            /\ files' = (files \cup {"compressed_output"})
                           \ {"output_file", "uncompressed_input"}
            /\ UNCHANGED abort_cause
       ELSE /\ pc' = "aborted"
            /\ abort_cause' = "NameError"
            /\ files' = files \cup {"compressed_output"}
    /\ UNCHANGED <<generate_uuid, header, compress, lines, input_headings,
                   output_headings, smiles_col, uuid_col, handles, reader_pos,
                   num_processed, num_failed, num_mols, fields, loader,
                   loader_header, rewritten, uuid_count, anno_in, anno_out,
                   anno_writes, lib>>

\* Line 501: the prior FieldsDescriptor, if any, is read and the merged one
\* is written.
ProcessFieldsDescriptor ==
    /\ pc = "fields"
    /\ \E prior \in PriorSchemas, l \in LibBehaviours :
          /\ anno_in' = prior
          /\ lib' = l
          /\ anno_out' = process_fields_descriptor(prior, fields, l)
    /\ anno_writes' = anno_writes + 1
    /\ pc' = "done"
    /\ UNCHANGED <<generate_uuid, header, compress, lines, abort_cause,
                   input_headings, output_headings, smiles_col, uuid_col,
                   handles, reader_pos, num_processed, num_failed, num_mols,
                   fields, loader, loader_header, rewritten, uuid_count, files>>

Next ==
    \/ UncompressFile
    \/ CheckFileFormat
    \/ OpenFiles
    \/ ProcessFileStart
    \/ ProcessRecord
    \/ ProcessFileEnd
    \/ CompressFile
    \/ ProcessFieldsDescriptor

Spec == Init /\ [][Next]_vars

----------------------------------------------------------------------------
(* Properties.                                                             *)

\* The data records of the input file and the positions of the run at
\* which the loop of process_file is between two records or behind it.
Recs == DataRecords(lines, header)

AfterLoop == pc \in {"compress", "fields", "done"}

BetweenRecords == pc = "loop" \/ AfterLoop

\* The data lines of the rewritten input file (its heading line left out).
RewrittenData ==
    IF header /\ Len(rewritten) > 0 THEN Tail(rewritten) ELSE rewritten

\* Record i of the input cannot be standardized / does not carry a valid
\* identifier in its second cell.
NullResult(i) == noniso_smiles(Recs[i][1]).mol = ""
InvalidId(i) == ~is_valid_uuid(Recs[i][2])

\* C1: at the end of process_file, processed = succeeded + failed, with
\* num_mols the succeeded counter, in both identifier modes.
C1_Accounting ==
    AfterLoop => num_processed = num_mols + num_failed

\* C2: a null standardization result or, in validation mode, an invalid
\* identifier is never fatal, for any data record including the first: when
\* the toolkit raises on no record, the run is not aborted while the file is
\* checked and read, and it leaves the loop with processed equal to the
\* number of data records.
C2_PerRecordFailureNeverFatal ==
    (/\ Len(lines) >= 2
     /\ \A i \in 1..Len(Recs) : ~noniso_smiles(Recs[i][1]).threw)
    => /\ pc = "aborted" => abort_cause = "NameError"
       /\ AfterLoop => num_processed = Len(Recs)

\* The cell a rewritten line carries in the identifier column (the second
\* column, inserted or not) and the cell the input record held under the
\* name of that column, if it had such a column.
IdCell(i) == RewrittenData[i][2]
HadIdColumn == uuid_col \in Range(input_headings)
OriginalId(i) == ZipDict(input_headings, Recs[i])[uuid_col]

\* C3 as stated: in generation mode every rewritten line carries in the
\* identifier column a generated uuid or the empty string, and never the
\* value the input record held in that column.
C3_NeverOriginalValue ==
    generate_uuid =>
        \A i \in 1..Len(RewrittenData) :
            /\ IdCell(i) \in Generated(uuid_count) \cup {""}
            /\ HadIdColumn => IdCell(i) # OriginalId(i)

\* C3 amended: in generation mode the identifier cell of a rewritten line is
\* the empty string when the record failed standardization and otherwise a
\* generated valid uuid that no other line carries; it is never the value
\* the input record held in that column, except that a failed record whose
\* cell was already empty keeps the empty string.
C3_FreshOrEmpty ==
    generate_uuid =>
        \A i \in 1..Len(RewrittenData) :
            /\ IF NullResult(i) THEN IdCell(i) = ""
               ELSE /\ IdCell(i) \in Generated(uuid_count)
                    /\ is_valid_uuid(IdCell(i))
                    /\ \A j \in 1..Len(RewrittenData) : j # i => IdCell(j) # IdCell(i)
            /\ HadIdColumn =>
                  \/ IdCell(i) # OriginalId(i)
                  \/ OriginalId(i) = "" /\ NullResult(i)

\* A finished generation run over a file with an identifier column in which
\* a valid uuid was replaced by a generated one and a non-empty cell of a
\* failed record was blanked.
C3_Witness ==
    /\ generate_uuid /\ pc = "done" /\ HadIdColumn
    /\ \E i \in 1..Len(RewrittenData) :
          OriginalId(i) = "U1" /\ IdCell(i) \in Generated(uuid_count)
    /\ \E i \in 1..Len(RewrittenData) :
          OriginalId(i) = "bad" /\ IdCell(i) = ""

\* C4: in generation mode, between two records and after the loop, the
\* rewritten file holds one data line per record read so far, in input
\* order, so behind the loop one line per data record of the file.
C4_Lockstep ==
    (generate_uuid /\ BetweenRecords) =>
        /\ Len(RewrittenData) = num_processed
        /\ Len(rewritten) = num_processed + (IF header THEN 1 ELSE 0)
        /\ \A i \in 1..Len(RewrittenData) : RewrittenData[i][1] = Recs[i][1]
        /\ AfterLoop => Len(RewrittenData) = Len(Recs)

\* A finished generation run in which a record failed standardization and a
\* later one succeeded.
C4_Witness ==
    /\ generate_uuid /\ pc = "done"
    /\ \E i, j \in 1..Len(Recs) : i < j /\ NullResult(i) /\ ~NullResult(j)
    /\ Len(RewrittenData) = Len(Recs)

\* The columns of the dataset of this run: those of the rewritten file when
\* generating uuids, those of the input file otherwise.
FileColumns ==
    IF generate_uuid THEN Range(output_headings) ELSE Range(lines[1])

\* C5: after process_fields_descriptor every field of the prior (or base)
\* schema is still present, every column of the file is in the schema and
\* active, and every other schema field is inactive.
C5_SchemaInvariant ==
    pc = "done" =>
        /\ \A f \in DOMAIN (IF DOMAIN anno_in # {} THEN anno_in ELSE BASE_FIELD_NAMES) :
              f \in DOMAIN anno_out
        /\ \A c \in FileColumns : c \in DOMAIN anno_out /\ anno_out[c].active
        /\ \A f \in DOMAIN anno_out : f \notin FileColumns => ~anno_out[f].active

\* C6: a run on a .gz input ends as the run on the uncompressed file does:
\* compression handling aborts nothing, the schema reconciliation runs once
\* behind the loop, and the uncompressed intermediates are gone.
C6_GzipTransparent ==
    compress =>
        /\ abort_cause # "NameError"
        /\ pc \in {"fields", "done"} =>
              /\ "uncompressed_input" \notin files
              /\ "output_file" \notin files
        /\ anno_writes = (IF pc = "done" THEN 1 ELSE 0)

\* Record i is one the run counts as failed.
FailedRecord(i) == NullResult(i) \/ (~generate_uuid /\ InvalidId(i))

\* The positions, in order, of the records read so far that did not fail.
EmittedSoFar ==
    SelectSeq([i \in 1..num_processed |-> i], LAMBDA i : ~FailedRecord(i))

\* C7: the loader file holds one row for each record that is not counted as
\* failed and none for a failed one, in input order, with rec_number the
\* 1-based position of the record among the data records.
C7_LoaderRows ==
    BetweenRecords =>
        /\ Len(loader) = Len(EmittedSoFar)
        /\ num_failed = num_processed - Len(EmittedSoFar)
        /\ \A k \in 1..Len(loader) :
              /\ loader[k].rec_number = EmittedSoFar[k]
              /\ loader[k].smiles = noniso_smiles(Recs[EmittedSoFar[k]][1]).smiles

\* A finished validation run in which a record with an invalid identifier
\* was followed by an emitted one.
C7_Witness ==
    /\ ~generate_uuid /\ pc = "done"
    /\ \E i \in 1..Len(Recs) : ~NullResult(i) /\ InvalidId(i)
    /\ \E k \in 1..Len(loader) : loader[k].rec_number # k

\* C8: reconciling the observed fields against the schema that
\* process_fields_descriptor produced from them changes no field's presence,
\* type or active flag.
C8_MergeIdempotent ==
    pc = "done" => process_fields_descriptor(anno_out, fields, lib) = anno_out

\* A finished run whose reconciliation both added an observed field and
\* made a field of the prior schema inactive.
C8_Witness ==
    /\ pc = "done"
    /\ DOMAIN anno_in # {}
    /\ \E f \in DOMAIN anno_out : f \notin DOMAIN anno_in
    /\ \E f \in DOMAIN anno_in : anno_in[f].active /\ ~anno_out[f].active

\* C9: when the process ends, normally or by a fatal exit, every file
\* handle the run opened has been closed.
C9_HandlesClosed ==
    pc \in {"done", "aborted"} => \A h \in DOMAIN handles : handles[h] # "open"

\* C10: in generation mode, when the second cell of the first record is not
\* a valid identifier the output headings are the input headings with one
\* identifier column inserted at position 1 and every rewritten line carries
\* each input cell unchanged in its shifted position; otherwise the output
\* headings are the input headings.
C10_InsertedColumnFrame ==
    (generate_uuid /\ BetweenRecords) =>
        IF InvalidId(1)
        THEN /\ output_headings = <<lines[1][1], "uuid">> \o Tail(lines[1])
             /\ \A i \in 1..Len(RewrittenData) : \A j \in 1..Len(Recs[i]) :
                   RewrittenData[i][IF j = 1 THEN 1 ELSE j + 1] = Recs[i][j]
        ELSE output_headings = lines[1]

====
